---- MODULE Spec2Model ----
(***************************************************************************)
(* Job store, job orchestrator (run_job) and submission loop of the quiz   *)
(* solver.  run_job is a coroutine on one asyncio event loop: every action *)
(* below is the code that runs between two suspension points (awaits), so  *)
(* a poller (GET /job/{id}) sees the store only between actions.           *)
(***************************************************************************)
EXTENDS Integers, Sequences, FiniteSets, TLC

VARIABLES
    JOB_STORE,  \* storage/jobs.py JOB_STORE: job_id -> record
    task,       \* per job: the locals of its run_job coroutine and where it is suspended
    now,        \* time.time(), in seconds
    grader,     \* per job: what the grading endpoint has received and replied
    planner,    \* per job: the calls the LLM endpoint has received
    observed,   \* per job: the last terminal (done or failed) body GET /job/{id} gave a poller
    files,      \* the download directory /tmp/llm_quiz: path -> content
    called,     \* the last direct call of storage/jobs.py create_job, with the record before and after
    env         \* what the surroundings do in this run (fixed at the start)

vars == <<JOB_STORE, task, now, grader, planner, observed, files, called, env>>

-----------------------------------------------------------------------------
\* Program constants

MAX_ITER == 10
MAX_DURATION == 180
PAYLOAD_LIMIT == 1000000
NoneTime == -1
None == "None"
NoneRec == [kind |-> "None"]
APP_SECRET == "s3cret"

\* Bounds of the model: the clock stops at MaxTime, an awaited call takes 0 or
\* DelayStep seconds.
MaxTime == 360
DelayStep == 180

Delays == {0, DelayStep}
JobIds == {"j1", "j2"}
Pages == {"p1", "p2"}
Payloads == [email : {"a@b.c"}, secret : {APP_SECRET, "wrong"}, url : Pages]

Truthy(v) == v # None /\ v # ""

-----------------------------------------------------------------------------
\* storage/jobs.py

create_job(store, job_id, payload, t) ==
    [k \in DOMAIN store \cup {job_id} |->
        IF k = job_id
        THEN [status |-> "queued", created_at |-> t, payload |-> payload,
              result |-> NoneRec, updated_at |-> t]
        ELSE store[k]]

\* Variant: the status is written and updated_at is left as it was.
set_job_status_stale(store, job_id, status, t) ==
    IF job_id \in DOMAIN store
    THEN [store EXCEPT ![job_id].status = status]
    ELSE store

\* Variant: setting the status of an unknown id inserts a record.
set_job_status_upsert(store, job_id, status, t) ==
    IF job_id \in DOMAIN store
    THEN [store EXCEPT ![job_id].status = status, ![job_id].updated_at = t]
    ELSE [k \in DOMAIN store \cup {job_id} |->
             IF k = job_id
             THEN [status |-> status, created_at |-> t, payload |-> None,
                   result |-> NoneRec, updated_at |-> t]
             ELSE store[k]]

set_job_status(store, job_id, status, t) ==
    IF job_id \in DOMAIN store
    THEN [store EXCEPT ![job_id].status = status, ![job_id].updated_at = t]
    ELSE store

\* Variant: the result is written into every record of the store.
set_job_result_everywhere(store, job_id, result, t) ==
    IF job_id \in DOMAIN store
    THEN [k \in DOMAIN store |-> [store[k] EXCEPT !.result = result, !.updated_at = t]]
    ELSE store

set_job_result(store, job_id, result, t) ==
    IF job_id \in DOMAIN store
    THEN [store EXCEPT ![job_id].result = result, ![job_id].updated_at = t]
    ELSE store

get_job(store, job_id) ==
    IF job_id \in DOMAIN store THEN store[job_id] ELSE NoneRec

-----------------------------------------------------------------------------
\* What the collaborators can hand back

\* A rendered page: which quiz it is, the submit link it shows (if any), the
\* file links it shows, and whether one of its hrefs makes urljoin raise.
PageLinks == {<<[type |-> "url", url |-> "/data.pdf"]>>}
TwoLinks == {<<[type |-> "url", url |-> "/a.pdf"], [type |-> "url", url |-> "/b.pdf"]>>}
ThreeLinks ==
    {<<[type |-> "url", url |-> "/a.pdf"], [type |-> "url", url |-> "/b.pdf"],
       [type |-> "url", url |-> "/c.pdf"]>>}
Htmls(url, links) ==
    [page : {url}, submit : {None, "/submit"}, links : links, malformed : BOOLEAN]

urljoin(base, href) == base \o href

\* Serialized JSON lengths of the answers the planner can produce.  BodyBase
\* is len(json.dumps(body)) without the answer: 44 bytes of punctuation and
\* keys, each of the three strings in quotes.
JsonStr(s) == Len(s) + 2
BodyBase(email, secret, url) == 44 + JsonStr(email) + JsonStr(secret) + JsonStr(url)
EdgeLen == PAYLOAD_LIMIT - BodyBase("a@b.c", APP_SECRET, "p1")
AnswerLens == {4, EdgeLen - 1, EdgeLen}

NoAnswer == [src |-> None, len |-> 4]

\* _call_llm returns the parsed JSON of the completion: a dict (whose "answer"
\* may be missing), another truthy JSON value, or a falsy value; or it raises.
LlmReturns ==
    [kind : {"dict"}, len : AnswerLens] \cup [kind : {"nondict", "falsy"}, len : {4}]
LlmOutcomes == LlmReturns \cup {[kind |-> "raise", len |-> 0]}

\* The grading endpoint's behaviour on the POST numbered id.
GraderReplies(id) ==
    [kind : {"transport_error", "text", "nonobject"}, correct : {"other"},
     url : {None}, id : {id}]
    \cup [kind : {"object"}, correct : {"true"}, url : Pages \cup {None}, id : {id}]
    \cup [kind : {"object"}, correct : {"false", "other"}, url : {None}, id : {id}]

\* The runs checked.  jobs and urls: the jobs POST /quiz-task is called for
\* and the pages they name; links: the file links a page shows; patience: the
\* number of the last POST the grader may still reject or chain (from the next
\* one on it gives a final reply); delays: how long an awaited call takes;
\* answers: the sizes of the answers the planner gives.
FullEnv ==
    [jobs |-> {"j1"}, urls |-> {"p1"}, links |-> PageLinks, patience |-> MAX_ITER,
     delays |-> Delays, answers |-> AnswerLens]

PlannerOutcomes(e) == {out \in LlmOutcomes : out.kind = "dict" => out.len \in e.answers}

Final(reply) ==
    ~(reply.kind = "object" /\ (reply.correct = "false" \/ Truthy(reply.url)))

GraderRepliesIn(e, id) == {reply \in GraderReplies(id) : id > e.patience => Final(reply)}

Diag(text) == [kind |-> "diag", text |-> text]
NO_SUBMIT_URL == "no submit_url provided; no submission attempted"
WINDOW_EXCEEDED == "stopped: exceeded 180 seconds window"
ATTEMPTS_REACHED == "stopped: reached 10 attempts"
TOO_LARGE == "submission payload too large (>1MB)"
SUBMISSION_ERROR == "submission error"
LLM_FOLLOWUP_FAILED == "LLM failed on follow-up"
LLM_REFINE_FAILED == "LLM failed during refinement"

-----------------------------------------------------------------------------
\* solver/parser.py, solver/fetcher.py and the extraction loops of run_job

\* parse_quiz_page: the question, the submit url resolved against base_url, the
\* resource descriptors.  urljoin raises on a malformed href.
parse_quiz_page(html, base_url) ==
    IF html.malformed
    THEN [raised |-> TRUE]
    ELSE [raised |-> FALSE,
          question_text |-> html.page,
          submit_url |-> IF Truthy(html.submit) THEN urljoin(base_url, html.submit) ELSE None,
          resources |-> html.links]

NoParsed == [raised |-> FALSE, question_text |-> None, submit_url |-> None, resources |-> << >>]
NoHtml == [page |-> None, submit |-> None, links |-> << >>, malformed |-> FALSE]
NoDict == [k \in {} |-> NoneRec]

\* The file a downloaded descriptor is saved as, and the write: the content of
\* a download is named by the url it came from.
res_path(i) == "/tmp/llm_quiz/res_" \o ToString(i - 1) \o ".pdf"

write_file(fs, path, content) ==
    [f \in DOMAIN fs \cup {path} |-> IF f = path THEN content ELSE fs[f]]

\* fetch_resources: the entries of the descriptors in `got` (those whose GET
\* answered 200).  The descriptor at position i (enumerate gives i - 1) is
\* saved as /tmp/llm_quiz/res_{i-1}.pdf and keyed by its position.
fetch_resources(parsed, base_url, got) ==
    [i \in got |->
        [type |-> "pdf",
         path |-> res_path(i),
         url |-> urljoin(base_url, parsed.resources[i].url)]]

\* The loop of fetch_resources runs without suspending up to the next
\* descriptor it downloads ("await client.get(href)"): its position, or 0 when
\* the loop is over.
fetch_scan(parsed, from) ==
    LET todo == {i \in from..Len(parsed.resources) : parsed.resources[i].type = "url"} IN
    IF todo = {} THEN 0 ELSE CHOOSE i \in todo : \A k \in todo : i <= k

\* Variant: an entry that could not be read is tagged "error".
error_entry_tagged_error(info) == [type |-> "error", error |-> "extract failed"]

\* "except Exception as e: extracted_texts[rid] = {"type": itype or "error", ...}"
error_entry(info) ==
    [type |-> IF Truthy(info.type) THEN info.type ELSE "error", error |-> "extract failed"]

\* The extraction loop: one entry per fetched resource, read from the file at
\* its path; a resource in `bad` raises while it is read.
extract_texts(resources, bad, fs) ==
    [rid \in DOMAIN resources |->
        IF rid \in bad
        THEN error_entry(resources[rid])
        ELSE [type |-> "pdf", text |-> fs[resources[rid].path]]]

-----------------------------------------------------------------------------
\* workers/runner.py: run_job, as the locals of the coroutine (the record L)
\* and the code between two awaits as a function from L to L.  L.pc names the
\* await the coroutine is suspended at; "break" and "raise" are where the
\* segment left the loop or the try block, settled by Resume below.

NoPayload == [email |-> None, secret |-> None, url |-> None]
NoBody == [email |-> None, secret |-> None, url |-> None, answer |-> NoAnswer]

NoTask ==
    [pc |-> "none", payload |-> NoPayload, url |-> None, html |-> NoHtml,
     parsed |-> NoParsed, resources |-> NoDict, extracted_texts |-> NoDict,
     submission_response |-> NoneRec, submit_attempts |-> 0,
     first_post_time |-> NoneTime, current_submit_url |-> None,
     current_answer |-> NoAnswer, current_source_url |-> None,
     body |-> NoBody, error |-> None, fetch_i |-> 0, got |-> {}]

Raise(L, error) == [L EXCEPT !.pc = "raise", !.error = error]
Break(L, response) == [L EXCEPT !.pc = "break", !.submission_response = response]

make_submission_body(email, secret, source_url, answer_val) ==
    [email |-> email, secret |-> secret, url |-> source_url, answer |-> answer_val]

dumps_len(obj) == BodyBase(obj.email, obj.secret, obj.url) + obj.answer.len

\* Variant: a body of exactly the limit passes.
payload_size_ok_inclusive(obj) == dumps_len(obj) <= PAYLOAD_LIMIT

payload_size_ok(obj) == dumps_len(obj) < PAYLOAD_LIMIT

\* Variant: the start time is taken anew on every iteration.
stamp_first_post_every_time(first_post_time, t) == t

\* "if first_post_time is None: first_post_time = time.time()"
stamp_first_post(first_post_time, t) ==
    IF first_post_time = NoneTime THEN t ELSE first_post_time

window_exceeded(first_post_time, t) == t - first_post_time > MAX_DURATION

\* Variant: the bound is compared one too late.
attempts_exhausted_one_late(submit_attempts) == submit_attempts > MAX_ITER + 1

attempts_exhausted(submit_attempts) == submit_attempts > MAX_ITER

\* Variant: the clock is started before the submit url is looked at.
loop_head_stamps_first(L, t) ==
    LET L1 == [L EXCEPT !.first_post_time = stamp_first_post(@, t)] IN
    IF ~Truthy(L.current_submit_url)
    THEN Break(L1, Diag(NO_SUBMIT_URL))
    ELSE IF window_exceeded(L1.first_post_time, t)
    THEN Break(L1, Diag(WINDOW_EXCEEDED))
    ELSE
    LET L2 == [L1 EXCEPT !.submit_attempts = @ + 1] IN
    IF attempts_exhausted(L2.submit_attempts)
    THEN Break(L2, Diag(ATTEMPTS_REACHED))
    ELSE
    LET L3 == [L2 EXCEPT !.body = make_submission_body(L.payload.email, L.payload.secret,
                                      L.current_source_url, L.current_answer)] IN
    IF ~payload_size_ok(L3.body)
    THEN Break(L3, Diag(TOO_LARGE))
    ELSE [L3 EXCEPT !.pc = "post"]

\* The head of one iteration of "while True", up to the await of client.post.
loop_head(L, t) ==
    IF ~Truthy(L.current_submit_url)
    THEN Break(L, Diag(NO_SUBMIT_URL))
    ELSE
    LET L1 == [L EXCEPT !.first_post_time = stamp_first_post(@, t)] IN
    IF window_exceeded(L1.first_post_time, t)
    THEN Break(L1, Diag(WINDOW_EXCEEDED))
    ELSE
    LET L2 == [L1 EXCEPT !.submit_attempts = @ + 1] IN
    IF attempts_exhausted(L2.submit_attempts)
    THEN Break(L2, Diag(ATTEMPTS_REACHED))
    ELSE
    LET L3 == [L2 EXCEPT !.body = make_submission_body(L.payload.email, L.payload.secret,
                                      L.current_source_url, L.current_answer)] IN
    IF ~payload_size_ok(L3.body)
    THEN Break(L3, Diag(TOO_LARGE))
    ELSE [L3 EXCEPT !.pc = "post"]

\* run_job up to its first await: the job is loaded and marked running by the
\* action; this is the url check.
check_url(L, job) ==
    LET L1 == [L EXCEPT !.payload = job.payload, !.url = job.payload.url] IN
    IF ~Truthy(L1.url)
    THEN Raise(L1, "Job payload missing 'url'")
    ELSE [L1 EXCEPT !.pc = "load_page_html"]

\* After "html = await load_page_html(url)": parse, then await fetch_resources.
\* The same code runs for the first page and for a follow-up page.
after_load(L, html, base_url, next_pc) ==
    LET parsed == parse_quiz_page(html, base_url) IN
    IF parsed.raised
    THEN Raise([L EXCEPT !.html = html], "urljoin failed")
    ELSE [L EXCEPT !.html = html, !.parsed = parsed, !.pc = next_pc,
                   !.fetch_i = fetch_scan(parsed, 1), !.got = {}]

\* Inside fetch_resources, after "resp = await client.get(href)" for the
\* descriptor at position i: it is kept if the status was 200 (the file is
\* written by the action), and the loop goes on to the next download.
after_get(L, i, ok) ==
    [L EXCEPT !.got = IF ok THEN @ \cup {i} ELSE @,
              !.fetch_i = fetch_scan(L.parsed, i + 1)]

\* After "resources = await fetch_resources(...)": the extraction loop and the
\* prompt, then await _call_llm.
after_fetch(L, resources, bad, fs, next_pc) ==
    [L EXCEPT !.resources = resources,
              !.extracted_texts = extract_texts(resources, bad, fs),
              !.pc = next_pc, !.fetch_i = 0, !.got = {}]

\* The value the loop takes as the answer from a planner reply: its "answer"
\* entry, planned from the question of the page in L.parsed.
answer_of(L, out) ==
    [src |-> L.parsed.question_text, len |-> IF out.kind = "dict" THEN out.len ELSE 4]

\* After the initial "await _call_llm(prompt)": normalise the answer, set up
\* the loop variables and run the head of the first iteration.
after_initial_llm(L, out, t) ==
    IF out.kind = "raise"
    THEN Raise(L, "LLM call failed")
    ELSE loop_head([L EXCEPT !.submission_response = NoneRec,
                             !.submit_attempts = 0,
                             !.first_post_time = NoneTime,
                             !.current_submit_url = L.parsed.submit_url,
                             !.current_answer = answer_of(L, out),
                             !.current_source_url = L.url], t)

\* Variant: a follow-up page starts a fresh budget.
follow_next_url_fresh_budget(L, next_url) ==
    [L EXCEPT !.current_source_url = next_url, !.pc = "chain_load",
              !.submit_attempts = 0, !.first_post_time = NoneTime]

\* "current_source_url = next_url", then await load_page_html.
follow_next_url(L, next_url) ==
    [L EXCEPT !.current_source_url = next_url, !.pc = "chain_load"]

\* Variant: a failed POST is sent again.
on_transport_error_retry(L) == [L EXCEPT !.pc = "post"]

\* "except Exception as e" around client.post: record the error and stop.
on_transport_error(L) == Break(L, Diag(SUBMISSION_ERROR))

\* Variant: the loop is left without recording the reply.
on_non_json_unrecorded(L, reply) == [L EXCEPT !.pc = "break"]

\* resp.json() raised: record resp.text and stop.
on_non_json(L, reply) == Break(L, reply)

\* Variant: a rejected answer is posted again as it is.
on_rejected_resubmit(L) == [L EXCEPT !.pc = "post"]

\* "correct" is False: build the feedback prompt, then await _call_llm.
on_rejected(L) == [L EXCEPT !.pc = "refine_llm"]

\* Variant: every reply that is not "correct: true" counts as a rejection.
after_post_rejects_unless_true(L, reply) ==
    IF reply.kind = "transport_error"
    THEN on_transport_error(L)
    ELSE IF reply.kind = "text"
    THEN on_non_json(L, reply)
    ELSE
    LET L1 == [L EXCEPT !.submission_response = reply] IN
    IF reply.kind # "object"
    THEN Raise(L1, "AttributeError: no attribute 'get'")
    ELSE IF reply.correct = "true"
    THEN IF Truthy(reply.url)
         THEN follow_next_url(L1, reply.url)
         ELSE [L1 EXCEPT !.pc = "break"]
    ELSE on_rejected(L1)

\* After "await client.post(...)": decode the reply and branch on it.  A JSON
\* reply that is no dict has no .get: the AttributeError leaves the try block.
after_post(L, reply) ==
    IF reply.kind = "transport_error"
    THEN on_transport_error(L)
    ELSE IF reply.kind = "text"
    THEN on_non_json(L, reply)
    ELSE
    LET L1 == [L EXCEPT !.submission_response = reply] IN
    IF reply.kind # "object"
    THEN Raise(L1, "AttributeError: no attribute 'get'")
    ELSE IF reply.correct = "true"
    THEN IF Truthy(reply.url)
         THEN follow_next_url(L1, reply.url)
         ELSE [L1 EXCEPT !.pc = "break"]
    ELSE IF reply.correct = "false"
    THEN on_rejected(L1)
    ELSE [L1 EXCEPT !.pc = "break"]

\* Variant: the answer of the previous page is kept for the follow-up page.
after_followup_llm_keeps_answer(L, out, t) ==
    IF out.kind = "raise"
    THEN Break(L, Diag(LLM_FOLLOWUP_FAILED))
    ELSE IF out.kind = "nondict"
    THEN Raise(L, "AttributeError: no attribute 'get'")
    ELSE loop_head([L EXCEPT !.current_submit_url = L.parsed.submit_url], t)

\* Variant: a planner failure on a follow-up page fails the job.
after_followup_llm_fatal(L, out, t) ==
    IF out.kind = "raise"
    THEN Raise(L, "LLM call failed")
    ELSE IF out.kind = "nondict"
    THEN Raise(L, "AttributeError: no attribute 'get'")
    ELSE loop_head([L EXCEPT !.current_answer = answer_of(L, out),
                             !.current_submit_url = L.parsed.submit_url], t)

\* Variant: the answer for the new page is posted to the previous page's
\* submit url.
after_followup_llm_old_submit_url(L, out, t) ==
    IF out.kind = "raise"
    THEN Break(L, Diag(LLM_FOLLOWUP_FAILED))
    ELSE IF out.kind = "nondict"
    THEN Raise(L, "AttributeError: no attribute 'get'")
    ELSE loop_head([L EXCEPT !.current_answer = answer_of(L, out)], t)

\* After "await _call_llm(prompt_follow)": the new answer and the new page's
\* submit url, then the head of the next iteration.
after_followup_llm(L, out, t) ==
    IF out.kind = "raise"
    THEN Break(L, Diag(LLM_FOLLOWUP_FAILED))
    ELSE IF out.kind = "nondict"
    THEN Raise(L, "AttributeError: no attribute 'get'")
    ELSE loop_head([L EXCEPT !.current_answer = answer_of(L, out),
                             !.current_submit_url = L.parsed.submit_url], t)

\* Variant: the refined answer is submitted for the job's first page.
after_refine_llm_first_page(L, out, t) ==
    IF out.kind = "raise"
    THEN Break(L, Diag(LLM_REFINE_FAILED))
    ELSE IF out.kind = "nondict"
    THEN Raise(L, "AttributeError: no attribute 'get'")
    ELSE loop_head([L EXCEPT !.current_answer = answer_of(L, out),
                             !.current_source_url = L.url], t)

\* After "await _call_llm(feedback_prompt)": the refined answer, then the
\* head of the next iteration against the same submit url.
after_refine_llm(L, out, t) ==
    IF out.kind = "raise"
    THEN Break(L, Diag(LLM_REFINE_FAILED))
    ELSE IF out.kind = "nondict"
    THEN Raise(L, "AttributeError: no attribute 'get'")
    ELSE loop_head([L EXCEPT !.current_answer = answer_of(L, out)], t)

\* "finalize result and save", and the catch-all handler.
success_result(L, t) ==
    [success |-> TRUE, parsed |-> L.parsed, resources |-> L.resources,
     extracted_texts |-> L.extracted_texts, answer_payload |-> L.current_answer,
     submission_response |-> L.submission_response, html_preview |-> L.html.page,
     finished_at |-> t]

failure_result(L, t) == [success |-> FALSE, error |-> L.error, finished_at |-> t]

\* Variant: the result is saved and the status is left as it was.
save_done_result_only(store, job_id, L, t) ==
    set_job_result(store, job_id, success_result(L, t), t)

\* Variant: the result is not saved before the status.
save_done_without_result(store, job_id, L, t) == set_job_status(store, job_id, "done", t)

save_done(store, job_id, L, t) ==
    set_job_status(set_job_result(store, job_id, success_result(L, t), t), job_id, "done", t)

\* Variants: the handler writes a status outside the four; the handler saves
\* the result and leaves the status.
save_failed_as_error(store, job_id, L, t) ==
    set_job_status(set_job_result(store, job_id, failure_result(L, t), t), job_id, "error", t)

save_failed_result_only(store, job_id, L, t) ==
    set_job_result(store, job_id, failure_result(L, t), t)

save_failed(store, job_id, L, t) ==
    set_job_status(set_job_result(store, job_id, failure_result(L, t), t), job_id, "failed", t)

-----------------------------------------------------------------------------
\* The two endpoints run_job talks to, as the record of what each has seen.

NoPost == [to |-> None, body |-> NoBody, at |-> NoneTime]

NoGrader ==
    [posts |-> 0, first_post_at |-> NoneTime, last_post |-> NoPost,
     unreachable_at |-> 0, rejections |-> 0, followups |-> 0, posts_on_page |-> 0, last_reply |-> NoneRec]

NoPrompt == [question |-> None, resources |-> NoDict]
NoPlanner == [initial |-> 0, followup |-> 0, refine |-> 0, raised |-> None, prompt |-> NoPrompt]

\* The grading endpoint receives the POST run_job has just issued.
post_received(g, L, t) ==
    [g EXCEPT !.posts = @ + 1,
              !.posts_on_page = @ + 1,
              !.first_post_at = IF g.posts = 0 THEN t ELSE @,
              !.last_post = [to |-> L.current_submit_url, body |-> L.body, at |-> t]]

\* The grading endpoint answers the POST, or cannot be reached for it.
reply_sent(g, reply) ==
    [g EXCEPT !.last_reply = IF reply.kind = "transport_error" THEN @ ELSE reply,
              !.unreachable_at = IF reply.kind = "transport_error" THEN g.posts ELSE @,
              !.rejections = IF reply.kind = "object" /\ reply.correct = "false"
                             THEN @ + 1 ELSE @,
              !.followups = IF reply.kind = "object" /\ reply.correct = "true"
                               /\ Truthy(reply.url) THEN @ + 1 ELSE @,
              !.posts_on_page = IF reply.kind = "object" /\ reply.correct = "true"
                                   /\ Truthy(reply.url) THEN 0 ELSE @]

\* The LLM endpoint receives the call run_job is now awaiting.
\* Each of the three prompts carries the question of the page and the
\* extracted texts.
llm_called(p, L) ==
    [p EXCEPT !.initial = IF L.pc = "_call_llm" THEN @ + 1 ELSE @,
              !.followup = IF L.pc = "chain_llm" THEN @ + 1 ELSE @,
              !.refine = IF L.pc = "refine_llm" THEN @ + 1 ELSE @,
              !.prompt = IF L.pc \in {"_call_llm", "chain_llm", "refine_llm"}
                         THEN [question |-> L.parsed.question_text,
                               resources |-> L.extracted_texts]
                         ELSE @]

\* The call awaited at pc came back as out: _call_llm raises when the request
\* fails, the API key is missing or the completion has no choices.
llm_returned(p, pc, out) ==
    [p EXCEPT !.raised = IF out.kind = "raise" THEN pc ELSE @]

-----------------------------------------------------------------------------
\* The state machine

NoCall == [op |-> "none", job_id |-> None, before |-> NoneRec, after |-> NoneRec]

InitWith(e) ==
    /\ env = e
    /\ JOB_STORE = [k \in {} |-> NoneRec]
    /\ task = [j \in JobIds |-> NoTask]
    /\ now = 0
    /\ grader = [j \in JobIds |-> NoGrader]
    /\ planner = [j \in JobIds |-> NoPlanner]
    /\ observed = [j \in JobIds |-> NoneRec]
    /\ files = [f \in {} |-> None]
    /\ called = NoCall

Init == InitWith(FullEnv)

\* The coroutine of job_id has run a segment from store and ended it as L: it
\* is suspended at the await L.pc, or it left the loop ("break": save the
\* result, status done) or the try block ("raise": the catch-all handler).
Resume(job_id, store, L, g, p) ==
    /\ task' = [task EXCEPT ![job_id] =
                   IF L.pc \in {"break", "raise"} THEN [L EXCEPT !.pc = "returned"] ELSE L]
    /\ JOB_STORE' = CASE L.pc = "break" -> save_done(store, job_id, L, now')
                      [] L.pc = "raise" -> save_failed(store, job_id, L, now')
                      [] OTHER -> store
    /\ grader' = IF L.pc = "post"
                 THEN [g EXCEPT ![job_id] = post_received(@, L, now')]
                 ELSE g
    /\ planner' = [p EXCEPT ![job_id] = llm_called(@, L)]

\* An awaited call returns after 0 or DelayStep seconds.
Elapse == \E d \in env.delays : now + d <= MaxTime /\ now' = now + d

\* POST /quiz-task: the secret is checked, uuid4 gives a fresh id, the job is
\* created and run_job is scheduled on the event loop.
quiz_task ==
    \E payload \in Payloads, job_id \in env.jobs \ DOMAIN JOB_STORE :
        /\ payload.url \in env.urls
        /\ payload.secret = APP_SECRET
        /\ task[job_id].pc = "none"
        /\ JOB_STORE' = create_job(JOB_STORE, job_id, payload, now)
        /\ task' = [task EXCEPT ![job_id].pc = "scheduled"]
        /\ UNCHANGED <<now, grader, planner, observed, files, called, env>>

\* Variant: the payload is returned as stored.
job_view_unredacted(store, job_id) ==
    LET job == get_job(store, job_id) IN
    IF job = NoneRec
    THEN [kind |-> "404"]
    ELSE [kind |-> "200", job_id |-> job_id, status |-> job.status,
          created_at |-> job.created_at, updated_at |-> job.updated_at,
          payload |-> job.payload, result |-> job.result]

\* GET /job/{job_id}: the record with the secret redacted, or 404.
job_view(store, job_id) ==
    LET job == get_job(store, job_id) IN
    IF job = NoneRec
    THEN [kind |-> "404"]
    ELSE [kind |-> "200", job_id |-> job_id, status |-> job.status,
          created_at |-> job.created_at, updated_at |-> job.updated_at,
          payload |-> [job.payload EXCEPT !.secret = "REDACTED"],
          result |-> job.result]

\* The poller keeps polling; it keeps the last body that showed a terminal status.
get_job_route(job_id) ==
    /\ LET body == job_view(JOB_STORE, job_id) IN
       observed' = [observed EXCEPT ![job_id] =
                       IF body.kind = "200" /\ body.status \in {"done", "failed"}
                       THEN body ELSE @]
    /\ UNCHANGED <<JOB_STORE, task, now, grader, planner, files, called, env>>

\* run_job from its start to "await load_page_html(url)".
run_job(job_id) ==
    /\ task[job_id].pc = "scheduled"
    /\ now' = now
    /\ UNCHANGED <<observed, files, called, env>>
    /\ LET job == get_job(JOB_STORE, job_id) IN
       IF job = NoneRec
       THEN /\ task' = [task EXCEPT ![job_id].pc = "returned"]
            /\ UNCHANGED <<JOB_STORE, grader, planner>>
       ELSE Resume(job_id, set_job_status(JOB_STORE, job_id, "running", now),
                   check_url(task[job_id], job), grader, planner)

load_page_html_returns(job_id) ==
    /\ task[job_id].pc = "load_page_html"
    /\ Elapse
    /\ UNCHANGED <<observed, files, called, env>>
    /\ \/ Resume(job_id, JOB_STORE, Raise(task[job_id], "render failed"), grader, planner)
       \/ \E html \in Htmls(task[job_id].url, env.links) :
            Resume(job_id, JOB_STORE,
                   after_load(task[job_id], html, task[job_id].url, "fetch_resources"), grader, planner)

\* fetch_resources resumes from "await client.get(href)" for the descriptor at
\* L.fetch_i (or from the client's context manager when the page has no
\* download): a 200 writes the file; then either the next download is awaited
\* or fetch_resources returns and run_job extracts the texts and awaits the
\* planner.
FetchReturns(job_id, base_url, next_pc) ==
    LET L == task[job_id]
        i == L.fetch_i
    IN
    \/ /\ files' = files
       /\ Resume(job_id, JOB_STORE, Raise(L, "fetch failed"), grader, planner)
    \/ \E ok \in (IF i = 0 THEN {FALSE} ELSE BOOLEAN) :
         LET L1 == IF i = 0 THEN L ELSE after_get(L, i, ok)
             fs == IF ok
                   THEN write_file(files, res_path(i), urljoin(base_url, L.parsed.resources[i].url))
                   ELSE files
         IN
         /\ files' = fs
         /\ IF L1.fetch_i # 0
            THEN Resume(job_id, JOB_STORE, L1, grader, planner)
            ELSE \E bad \in SUBSET L1.got :
                   Resume(job_id, JOB_STORE,
                          after_fetch(L1, fetch_resources(L1.parsed, base_url, L1.got),
                                      bad, fs, next_pc), grader, planner)

fetch_resources_returns(job_id) ==
    /\ task[job_id].pc = "fetch_resources"
    /\ Elapse
    /\ UNCHANGED <<observed, called, env>>
    /\ FetchReturns(job_id, task[job_id].url, "_call_llm")

call_llm_returns(job_id) ==
    /\ task[job_id].pc = "_call_llm"
    /\ Elapse
    /\ UNCHANGED <<observed, files, called, env>>
    /\ \E out \in PlannerOutcomes(env) :
         Resume(job_id, JOB_STORE, after_initial_llm(task[job_id], out, now'), grader,
                [planner EXCEPT ![job_id] = llm_returned(@, task[job_id].pc, out)])

post_returns(job_id) ==
    /\ task[job_id].pc = "post"
    /\ Elapse
    /\ UNCHANGED <<observed, files, called, env>>
    /\ \E reply \in GraderRepliesIn(env, grader[job_id].posts) :
         Resume(job_id, JOB_STORE, after_post(task[job_id], reply),
                [grader EXCEPT ![job_id] = reply_sent(@, reply)], planner)

chain_load_returns(job_id) ==
    /\ task[job_id].pc = "chain_load"
    /\ Elapse
    /\ UNCHANGED <<observed, files, called, env>>
    /\ \/ Resume(job_id, JOB_STORE, Raise(task[job_id], "render failed"), grader, planner)
       \/ \E html \in Htmls(task[job_id].current_source_url, env.links) :
            Resume(job_id, JOB_STORE,
                   after_load(task[job_id], html, task[job_id].current_source_url,
                              "chain_fetch"), grader, planner)

chain_fetch_returns(job_id) ==
    /\ task[job_id].pc = "chain_fetch"
    /\ Elapse
    /\ UNCHANGED <<observed, called, env>>
    /\ FetchReturns(job_id, task[job_id].current_source_url, "chain_llm")

followup_llm_returns(job_id) ==
    /\ task[job_id].pc = "chain_llm"
    /\ Elapse
    /\ UNCHANGED <<observed, files, called, env>>
    /\ \E out \in PlannerOutcomes(env) :
         Resume(job_id, JOB_STORE, after_followup_llm(task[job_id], out, now'), grader,
                [planner EXCEPT ![job_id] = llm_returned(@, task[job_id].pc, out)])

refine_llm_returns(job_id) ==
    /\ task[job_id].pc = "refine_llm"
    /\ Elapse
    /\ UNCHANGED <<observed, files, called, env>>
    /\ \E out \in PlannerOutcomes(env) :
         Resume(job_id, JOB_STORE, after_refine_llm(task[job_id], out, now'), grader,
                [planner EXCEPT ![job_id] = llm_returned(@, task[job_id].pc, out)])

Next ==
    \/ quiz_task
    \/ \E job_id \in JobIds :
        \/ get_job_route(job_id)
        \/ run_job(job_id)
        \/ load_page_html_returns(job_id)
        \/ fetch_resources_returns(job_id)
        \/ call_llm_returns(job_id)
        \/ post_returns(job_id)
        \/ chain_load_returns(job_id)
        \/ chain_fetch_returns(job_id)
        \/ followup_llm_returns(job_id)
        \/ refine_llm_returns(job_id)

Spec == Init /\ [][Next]_vars

\* The event loop runs every coroutine that is ready: a job that was scheduled
\* is started, and an awaited call of a job returns or raises in finite time.
JobStep(job_id) ==
    \/ run_job(job_id)
    \/ load_page_html_returns(job_id)
    \/ fetch_resources_returns(job_id)
    \/ call_llm_returns(job_id)
    \/ post_returns(job_id)
    \/ chain_load_returns(job_id)
    \/ chain_fetch_returns(job_id)
    \/ followup_llm_returns(job_id)
    \/ refine_llm_returns(job_id)

\* One job, the grader free to reject or chain every POST, calls that take
\* time, small answers.
LiveEnv ==
    [jobs |-> {"j1"}, urls |-> {"p1"}, links |-> PageLinks, patience |-> MAX_ITER,
     delays |-> Delays, answers |-> {4}]

InitLive == InitWith(LiveEnv)

FairSpec == InitLive /\ [][Next]_vars /\ \A job_id \in JobIds : WF_vars(JobStep(job_id))

\* One job on pages that show three files; the grader may reject or chain the
\* first POST only.
PagesEnv ==
    [jobs |-> {"j1"}, urls |-> {"p1"}, links |-> ThreeLinks, patience |-> 1,
     delays |-> {0}, answers |-> {4}]

InitPages == InitWith(PagesEnv)

SpecPages == InitPages /\ [][Next]_vars

\* Two jobs in flight on pages that show two files; the grader gives a final
\* reply to the one POST of each job, so the steps of the refinement and
\* follow-up branches are never taken.
JobsEnv ==
    [jobs |-> {"j1", "j2"}, urls |-> Pages, links |-> TwoLinks, patience |-> 0,
     delays |-> {0}, answers |-> {4}]

InitJobs == InitWith(JobsEnv)

NextJobs ==
    \/ quiz_task
    \/ \E job_id \in JobIds :
        \/ get_job_route(job_id)
        \/ run_job(job_id)
        \/ load_page_html_returns(job_id)
        \/ fetch_resources_returns(job_id)
        \/ call_llm_returns(job_id)
        \/ post_returns(job_id)

SpecJobs == InitJobs /\ [][NextJobs]_vars

\* Two jobs for the same page, called for at different times, with awaited
\* calls that take time.
ClockEnv ==
    [jobs |-> {"j1", "j2"}, urls |-> {"p1"}, links |-> PageLinks, patience |-> 0,
     delays |-> Delays, answers |-> {4}]

InitClock == InitWith(ClockEnv)

SpecClock == InitClock /\ [][NextJobs]_vars

\* storage/jobs.py used from outside the route: create_job is called with an
\* id of the caller's choice, which may have a record already.
create_job_called ==
    \E job_id \in env.jobs, payload \in Payloads :
        /\ payload.url \in env.urls
        /\ JOB_STORE' = create_job(JOB_STORE, job_id, payload, now)
        /\ called' = [op |-> "create_job", job_id |-> job_id,
                      before |-> get_job(JOB_STORE, job_id),
                      after |-> get_job(JOB_STORE', job_id)]
        /\ UNCHANGED <<task, now, grader, planner, observed, files, env>>

\* JOB_STORE is emptied from outside while the process runs on.
store_cleared ==
    /\ DOMAIN JOB_STORE # {}
    /\ JOB_STORE' = [k \in {} |-> NoneRec]
    /\ UNCHANGED <<task, now, grader, planner, observed, files, called, env>>

NextStore == Next \/ create_job_called \/ store_cleared

\* One job, a grader that may reject or chain the first POST only, and the
\* store open to direct calls and to clearing.
StoreEnv ==
    [jobs |-> {"j1"}, urls |-> {"p1"}, links |-> PageLinks, patience |-> 1,
     delays |-> {0}, answers |-> {4}]

InitStore == InitWith(StoreEnv)

SpecStore == InitStore /\ [][NextStore]_vars

-----------------------------------------------------------------------------
\* Properties

Created == DOMAIN JOB_STORE
Returned(j) == task[j].pc = "returned"
Exited(j, text) ==
    Returned(j) /\ task[j].error = None /\ task[j].submission_response = Diag(text)

\* C1: whatever the grader replies (rejections, acceptances with a follow-up
\* url, chained pages), the grading endpoint receives at most MAX_ITER = 10
\* POSTs from one job.
C1_AtMostTenPosts == \A j \in JobIds : grader[j].posts <= MAX_ITER

\* Ten POSTs are made by a job whose grader both rejected and chained.
C1_Witness ==
    \E j \in JobIds :
        grader[j].posts = MAX_ITER /\ grader[j].followups >= 1 /\ grader[j].rejections >= 1

\* C2: over the whole run of a job, chained pages included, submit_attempts
\* never decreases and first_post_time, once set, never changes; and the
\* "reached 10 attempts" diagnostic is given exactly when the 10 POSTs of the
\* job have been made, however they are spread over the pages.
C2_BudgetKept ==
    \A j \in JobIds :
        /\ task'[j].submit_attempts >= task[j].submit_attempts
        /\ task[j].first_post_time # NoneTime
              => task'[j].first_post_time = task[j].first_post_time

C2_ChainingKeepsBudget ==
    /\ [][C2_BudgetKept]_vars
    /\ [](\A j \in JobIds : Exited(j, ATTEMPTS_REACHED) => grader[j].posts = MAX_ITER)

\* A job on its third page stops with "reached 10 attempts" after its second
\* POST there, the tenth of the job.
C2_Witness ==
    \E j \in JobIds :
        /\ Exited(j, ATTEMPTS_REACHED)
        /\ grader[j].followups = 2
        /\ grader[j].posts_on_page = 2
        /\ grader[j].posts = MAX_ITER

\* C3: every POST reaches the grader at most MAX_DURATION = 180 seconds after
\* the first POST of the job; and a job that leaves the loop at a check behind
\* the time gate (attempts, payload size) does so inside the window, so past
\* the window the only exit at the gate is the "exceeded" diagnostic.
C3_NoPostAfterWindow ==
    \A j \in JobIds :
        /\ grader[j].posts > 0
              => grader[j].last_post.at - grader[j].first_post_at <= MAX_DURATION
        /\ Exited(j, ATTEMPTS_REACHED) \/ Exited(j, TOO_LARGE)
              => JOB_STORE[j].result.finished_at - task[j].first_post_time <= MAX_DURATION

\* A job that has posted and chained stops with the "exceeded" diagnostic.
C3_Witness ==
    \E j \in JobIds :
        /\ Exited(j, WINDOW_EXCEEDED)
        /\ grader[j].followups >= 1
        /\ now - grader[j].first_post_at > MAX_DURATION

Terminal == {"done", "failed"}

\* C4: a read of a job shows one of the four statuses; the status only moves
\* queued -> running -> done or failed; and once a poller has been shown done
\* or failed, every later read shows that same status.
C4_LegalMove ==
    \A j \in Created :
        JOB_STORE'[j].status # JOB_STORE[j].status
            => <<JOB_STORE[j].status, JOB_STORE'[j].status>>
                   \in {<<"queued", "running">>, <<"running", "done">>, <<"running", "failed">>}

C4_StatusLifecycle ==
    /\ [](\A j \in Created :
            job_view(JOB_STORE, j).status \in {"queued", "running", "done", "failed"})
    /\ [][C4_LegalMove]_vars
    /\ [](\A j \in JobIds :
            observed[j] # NoneRec => job_view(JOB_STORE, j).status = observed[j].status)

\* A poller has been shown a job as failed.
C4_Witness == \E j \in JobIds : observed[j] # NoneRec /\ observed[j].status = "failed"

\* C5: what a read shows has no result while the status is queued or running
\* and has one when it is done or failed; a result, once there, is never
\* replaced.
C5_ResultKept ==
    \A j \in Created :
        JOB_STORE[j].result # NoneRec => JOB_STORE'[j].result = JOB_STORE[j].result

C5_ResultIffTerminal ==
    /\ [](\A j \in Created :
            LET body == job_view(JOB_STORE, j) IN
            /\ body.status \in {"queued", "running"} => body.result = NoneRec
            /\ body.status \in Terminal => body.result # NoneRec)
    /\ [][C5_ResultKept]_vars

\* A job that has posted twice is still running and shows no result.
C5_Witness ==
    \E j \in Created :
        /\ job_view(JOB_STORE, j).status = "running"
        /\ job_view(JOB_STORE, j).result = NoneRec
        /\ grader[j].posts = 2

\* C6: an exception raised anywhere in run_job after the job is marked
\* running is caught: run_job has returned, the job is failed and its result
\* is {success: false, error, finished_at} with the exception's message.
C6_FailureIsCaught ==
    \A j \in JobIds :
        /\ task[j].error # None
              => /\ Returned(j)
                 /\ j \in Created
                 /\ JOB_STORE[j].status = "failed"
                 /\ DOMAIN JOB_STORE[j].result = {"success", "error", "finished_at"}
                 /\ JOB_STORE[j].result.success = FALSE
                 /\ JOB_STORE[j].result.error = task[j].error
        /\ Returned(j) /\ j \in Created => JOB_STORE[j].status \in Terminal

\* A job failed on a follow-up page that could not be rendered.
C6_Witness ==
    \E j \in Created :
        /\ task[j].error = "render failed"
        /\ grader[j].followups = 1
        /\ JOB_STORE[j].status = "failed"

\* C7: after a grader reply that is no JSON object (plain text, or JSON of
\* another type) run_job has returned without another POST, the reply is the
\* submission_response and the job is done with success true.
C7_MalformedReplyEndsDone ==
    \A j \in JobIds :
        grader[j].last_reply.kind \in {"text", "nonobject"}
            => /\ Returned(j)
               /\ grader[j].posts = grader[j].last_reply.id
               /\ JOB_STORE[j].status = "done"
               /\ JOB_STORE[j].result.success = TRUE
               /\ JOB_STORE[j].result.submission_response = grader[j].last_reply

\* C8: after a POST that failed at transport level no further POST is made:
\* run_job has returned with the error diagnostic, having made as many
\* attempts as that POST's number (one, if it was the first), and the job is
\* done with success true.
C8_TransportErrorStops ==
    \A j \in JobIds :
        grader[j].unreachable_at > 0
            => /\ grader[j].posts = grader[j].unreachable_at
               /\ task[j].submit_attempts = grader[j].unreachable_at
               /\ Exited(j, SUBMISSION_ERROR)
               /\ JOB_STORE[j].status = "done"
               /\ JOB_STORE[j].result.success = TRUE
               /\ JOB_STORE[j].result.submission_response = Diag(SUBMISSION_ERROR)

\* The first POST of a job failed at transport level and the job is done.
C8_Witness ==
    \E j \in Created :
        /\ grader[j].unreachable_at = 1
        /\ task[j].submit_attempts = 1
        /\ JOB_STORE[j].status = "done"

\* C9: every body the grader receives serializes to fewer than 1,000,000
\* bytes; a body of 1,000,000 bytes or more ends the loop with the "too
\* large" diagnostic without being posted; and that diagnostic is given for
\* no smaller body.
C9_OversizeNeverPosted ==
    \A j \in JobIds :
        /\ grader[j].posts > 0 => dumps_len(grader[j].last_post.body) < PAYLOAD_LIMIT
        /\ dumps_len(task[j].body) >= PAYLOAD_LIMIT
              => /\ Exited(j, TOO_LARGE)
                 /\ grader[j].last_post.body # task[j].body
                 /\ JOB_STORE[j].result.submission_response = Diag(TOO_LARGE)
        /\ Exited(j, TOO_LARGE) => dumps_len(task[j].body) >= PAYLOAD_LIMIT

\* A body of 999,999 bytes was posted and rejected, and the refined answer,
\* which makes the body 1,000,000 bytes, was not posted.
C9_Witness ==
    \E j \in JobIds :
        /\ Exited(j, TOO_LARGE)
        /\ dumps_len(task[j].body) = PAYLOAD_LIMIT
        /\ grader[j].posts = 1
        /\ dumps_len(grader[j].last_post.body) = PAYLOAD_LIMIT - 1

\* C10: when the grader has rejected k answers and accepted the next one
\* without a follow-up url (k + 1 <= 10), run_job has returned after exactly
\* k + 1 POSTs and k refinement calls to the planner, and the saved
\* submission_response is the accepting reply.
Accepted(j) ==
    /\ grader[j].last_reply.kind = "object"
    /\ grader[j].last_reply.correct = "true"
    /\ grader[j].last_reply.url = None

C10_RejectsThenAccept ==
    \A j \in JobIds :
        /\ Accepted(j)
        /\ grader[j].followups = 0
        /\ grader[j].last_reply.id = grader[j].rejections + 1
        /\ grader[j].rejections + 1 <= MAX_ITER
        => /\ Returned(j)
           /\ grader[j].posts = grader[j].rejections + 1
           /\ task[j].submit_attempts = grader[j].rejections + 1
           /\ planner[j].refine = grader[j].rejections
           /\ JOB_STORE[j].status = "done"
           /\ JOB_STORE[j].result.submission_response = grader[j].last_reply

\* Two rejections, then the third answer is accepted.
C10_Witness ==
    \E j \in JobIds :
        /\ Accepted(j)
        /\ grader[j].followups = 0
        /\ grader[j].rejections = 2
        /\ grader[j].posts = 3
        /\ Returned(j)

\* The job is suspended at the first POST it makes after the grader accepted
\* an answer and named a follow-up page: that reply is grader[j].last_reply.
FirstPostAfterFollowup(j) ==
    /\ task[j].pc = "post"
    /\ grader[j].followups >= 1
    /\ grader[j].posts_on_page = 1

\* C11: after a reply "correct: true" with a follow-up url, the next POST of
\* the job is made only after that url was rendered, parsed, fetched and
\* extracted and the planner was asked once more; its body carries url = the
\* follow-up url and an answer planned from the new page, it goes to the
\* submit url found on the new page, and it is numbered one above the POST
\* the reply answered.
C11_ChainingRerunsPipeline ==
    \A j \in JobIds :
        FirstPostAfterFollowup(j)
            => LET next_url == grader[j].last_reply.url IN
               /\ task[j].html.page = next_url
               /\ task[j].parsed = parse_quiz_page(task[j].html, next_url)
               /\ DOMAIN task[j].extracted_texts = DOMAIN task[j].resources
               /\ planner[j].followup = grader[j].followups
               /\ grader[j].last_post.body.url = next_url
               /\ grader[j].last_post.body.answer.src = next_url
               /\ grader[j].last_post.to = urljoin(next_url, task[j].html.submit)
               /\ task[j].submit_attempts = grader[j].last_reply.id + 1
               /\ grader[j].posts = grader[j].last_reply.id + 1

\* After a rejection on p1 the second answer was accepted with follow-up p2,
\* and the job now posts its third submission, for p2.
C11_Witness ==
    \E j \in JobIds :
        /\ FirstPostAfterFollowup(j)
        /\ grader[j].last_reply.url = "p2"
        /\ grader[j].rejections = 1
        /\ grader[j].posts = 3
        /\ grader[j].last_post.to = "p2/submit"

\* C12 as stated: a planner call that raised leaves the job failed, unless it
\* was the refinement call, which leaves the job done with the diagnostic.
C12_PlannerFailureFailsJob ==
    \A j \in JobIds :
        /\ planner[j].raised \in {"_call_llm", "chain_llm"}
              => Returned(j) /\ JOB_STORE[j].status = "failed"
        /\ planner[j].raised = "refine_llm"
              => /\ Returned(j)
                 /\ JOB_STORE[j].status = "done"
                 /\ JOB_STORE[j].result.submission_response = Diag(LLM_REFINE_FAILED)

\* C12, amended: a planner call that raised leaves the job failed only when it
\* was the initial call; a refinement call or a follow-up call that raised
\* ends the submission loop without another POST and leaves the job done with
\* success true and that branch's diagnostic as submission_response.
C12_PlannerFailureByBranch ==
    \A j \in JobIds :
        /\ planner[j].raised = "_call_llm"
              => /\ Returned(j)
                 /\ JOB_STORE[j].status = "failed"
                 /\ JOB_STORE[j].result.success = FALSE
                 /\ JOB_STORE[j].result.error = "LLM call failed"
                 /\ grader[j].posts = 0
        /\ planner[j].raised = "refine_llm"
              => /\ Exited(j, LLM_REFINE_FAILED)
                 /\ JOB_STORE[j].status = "done"
                 /\ JOB_STORE[j].result.success = TRUE
                 /\ JOB_STORE[j].result.submission_response = Diag(LLM_REFINE_FAILED)
                 /\ grader[j].posts = grader[j].last_reply.id
                 /\ grader[j].last_reply.correct = "false"
        /\ planner[j].raised = "chain_llm"
              => /\ Exited(j, LLM_FOLLOWUP_FAILED)
                 /\ JOB_STORE[j].status = "done"
                 /\ JOB_STORE[j].result.success = TRUE
                 /\ JOB_STORE[j].result.submission_response = Diag(LLM_FOLLOWUP_FAILED)
                 /\ grader[j].posts = grader[j].last_reply.id
                 /\ Truthy(grader[j].last_reply.url)

\* The planner failed on the follow-up page of an accepted first answer, and
\* the job is done.
C12_Witness ==
    \E j \in Created :
        /\ planner[j].raised = "chain_llm"
        /\ planner[j].followup = 1
        /\ grader[j].posts = 1
        /\ JOB_STORE[j].status = "done"

ErrorEntries(j) ==
    {rid \in DOMAIN task[j].extracted_texts : "error" \in DOMAIN task[j].extracted_texts[rid]}
TextEntries(j) ==
    {rid \in DOMAIN task[j].extracted_texts : "text" \in DOMAIN task[j].extracted_texts[rid]}

\* Once the texts of a page are extracted there is one entry per fetched
\* resource, the entries that could be read hold the text, and the planner
\* has been called with a prompt that holds all the entries.
ExtractionIsPartial(j) ==
    /\ DOMAIN task[j].extracted_texts = DOMAIN task[j].resources
    /\ ErrorEntries(j) \cup TextEntries(j) = DOMAIN task[j].resources
    /\ ErrorEntries(j) # {}
          => /\ task[j].error # "extract failed"
             /\ planner[j].initial = 1
             /\ planner[j].prompt.resources = task[j].extracted_texts
             /\ \A rid \in TextEntries(j) :
                    task[j].extracted_texts[rid].text = task[j].resources[rid].url

\* C13 as stated: extraction is partial as above, and the entry of a resource
\* that could not be read is {type: "error", error}.
C13_FailedEntryTaggedError ==
    \A j \in JobIds :
        /\ ExtractionIsPartial(j)
        /\ \A rid \in ErrorEntries(j) :
               /\ DOMAIN task[j].extracted_texts[rid] = {"type", "error"}
               /\ task[j].extracted_texts[rid].type = "error"

\* C13, amended: extraction is partial as above, and the entry of a resource
\* that could not be read is {type, error} with the type of the resource
\* itself ("pdf" for every download); "error" is the type only of a resource
\* that has none.
C13_FailedEntryKeepsType ==
    \A j \in JobIds :
        /\ ExtractionIsPartial(j)
        /\ \A rid \in ErrorEntries(j) :
               /\ DOMAIN task[j].extracted_texts[rid] = {"type", "error"}
               /\ task[j].extracted_texts[rid].type
                      = IF Truthy(task[j].resources[rid].type)
                        THEN task[j].resources[rid].type ELSE "error"

\* Three files were fetched, the second could not be read, and the job has
\* posted the answer planned from the prompt with the three entries.
C13_Witness ==
    \E j \in JobIds :
        /\ DOMAIN task[j].resources = {1, 2, 3}
        /\ ErrorEntries(j) = {2}
        /\ TextEntries(j) = {1, 3}
        /\ planner[j].prompt.resources = task[j].extracted_texts
        /\ grader[j].posts = 1

\* C14: create_job on an id that has a record leaves that record as it was
\* (the call is refused); on a fresh id it inserts a record with status
\* queued and no result.
C14_DuplicateCreateRefused ==
    called.op = "create_job"
        => IF called.before # NoneRec
           THEN called.after = called.before
           ELSE called.after.status = "queued" /\ called.after.result = NoneRec

\* C15: a record comes into being only as a queued one made by create_job,
\* never by set_job_status or set_job_result; run_job started for an id that
\* has no record returns with the store, the files and both endpoints
\* untouched; and every step of a job whose record has been cleared away
\* leaves the store as it is.
C15_Step ==
    \A j \in JobIds :
        /\ j \notin DOMAIN JOB_STORE /\ j \in DOMAIN JOB_STORE'
              => /\ JOB_STORE'[j].status = "queued"
                 /\ JOB_STORE'[j].result = NoneRec
                 /\ \/ task[j].pc = "none" /\ task'[j].pc = "scheduled"
                    \/ called'.op = "create_job" /\ called'.job_id = j
        /\ j \notin DOMAIN JOB_STORE /\ task[j].pc = "scheduled" /\ task'[j] # task[j]
              => /\ task'[j] = [NoTask EXCEPT !.pc = "returned"]
                 /\ UNCHANGED <<JOB_STORE, grader, planner, files, now>>
        /\ j \notin DOMAIN JOB_STORE /\ task[j].pc # "none" /\ task'[j] # task[j]
              => JOB_STORE' = JOB_STORE

C15_UnknownIdIsNoOp == [][C15_Step]_vars

\* A job lost its record after its first POST and has returned from the loop;
\* the store has no record of it.
C15_Witness ==
    \E j \in JobIds :
        /\ Returned(j)
        /\ task[j].error = None
        /\ grader[j].posts >= 1
        /\ j \notin DOMAIN JOB_STORE
        /\ called = NoCall

\* C16: with two jobs in flight, the text a job has extracted from a
\* resource is the content that job downloaded for it (the content of a
\* download is named by the url it came from).
C16_OwnDownloadsOnly ==
    \A j \in JobIds :
        \A rid \in TextEntries(j) :
            task[j].extracted_texts[rid].text = task[j].resources[rid].url

\* C19: a step that changes the status or the result of a record also sets
\* its updated_at to the time of that step, so no state a reader can see has
\* the new status or result with the old updated_at; and the body of a read
\* shows status, result and updated_at of one and the same state of the
\* record.
C19_Step ==
    \A j \in DOMAIN JOB_STORE \cap DOMAIN JOB_STORE' :
        JOB_STORE'[j].status # JOB_STORE[j].status \/ JOB_STORE'[j].result # JOB_STORE[j].result
            => JOB_STORE'[j].updated_at = now'

C19_WritesAreAtomic ==
    /\ [][C19_Step]_vars
    /\ [](\A j \in Created :
            LET body == job_view(JOB_STORE, j) IN
            /\ body.status = JOB_STORE[j].status
            /\ body.result = JOB_STORE[j].result
            /\ body.updated_at = JOB_STORE[j].updated_at
            /\ body.status \in Terminal => body.updated_at = body.result.finished_at)

\* While one job is done, the other, created later, was marked running at a
\* time after its creation.
C19_Witness ==
    \E j, k \in Created :
        /\ JOB_STORE[j].status = "done"
        /\ JOB_STORE[k].status = "running"
        /\ JOB_STORE[k].created_at > 0
        /\ JOB_STORE[k].updated_at > JOB_STORE[k].created_at

\* C17: every job that has been created and scheduled is eventually done or
\* failed, whatever the grader, the planner and the pages do, as long as the
\* event loop runs the job and its awaited calls come back.
C17_EveryJobEnds ==
    \A j \in JobIds :
        (task[j].pc = "scheduled") ~> (j \in Created /\ JOB_STORE[j].status \in Terminal)

\* A job is done after the grader rejected nine answers and chained once.
C17_Witness ==
    \E j \in Created :
        /\ JOB_STORE[j].status = "done"
        /\ grader[j].posts = MAX_ITER
        /\ grader[j].rejections = MAX_ITER - 1
        /\ grader[j].followups = 1

\* C18: a failed job has the result {success: false, error, finished_at} with
\* an error string; a done job has success true, the parsed page, resources,
\* extracted texts and answer of the run, and a submission_response that is
\* never null: a diagnostic of the loop or the last reply of the grader,
\* accepted or not.
C18_SuccessAgreesWithStatus ==
    \A j \in Created :
        LET result == JOB_STORE[j].result IN
        /\ JOB_STORE[j].status = "failed"
              => /\ DOMAIN result = {"success", "error", "finished_at"}
                 /\ result.success = FALSE
                 /\ Truthy(result.error)
        /\ JOB_STORE[j].status = "done"
              => /\ DOMAIN result = {"success", "parsed", "resources", "extracted_texts",
                                     "answer_payload", "submission_response",
                                     "html_preview", "finished_at"}
                 /\ result.success = TRUE
                 /\ result.parsed = task[j].parsed
                 /\ result.resources = task[j].resources
                 /\ result.extracted_texts = task[j].extracted_texts
                 /\ result.answer_payload = task[j].current_answer
                 /\ result.submission_response # NoneRec
                 /\ \/ result.submission_response.kind = "diag"
                    \/ result.submission_response = grader[j].last_reply

\* A job is done with success true although the grader rejected all ten of
\* its answers; the diagnostic is its submission_response.
C18_Witness ==
    \E j \in Created :
        /\ JOB_STORE[j].status = "done"
        /\ JOB_STORE[j].result.success = TRUE
        /\ grader[j].rejections = MAX_ITER
        /\ JOB_STORE[j].result.submission_response = Diag(ATTEMPTS_REACHED)

\* C20: in every state of a job the body of a read shows "REDACTED" in place
\* of the secret and holds no other copy of the payload; the stored payload
\* keeps the secret it was created with; and every body the grader receives
\* carries the email and the secret of the stored payload, also after a
\* poller has read the job.
C20_SecretNeverExposed ==
    \A j \in Created :
        LET body == job_view(JOB_STORE, j) IN
        /\ body.payload.secret = "REDACTED"
        /\ body.payload.secret # JOB_STORE[j].payload.secret
        /\ DOMAIN body = {"kind", "job_id", "status", "created_at", "updated_at",
                          "payload", "result"}
        /\ "secret" \notin DOMAIN body.result
        /\ observed[j] # NoneRec => observed[j].payload.secret = "REDACTED"
        /\ JOB_STORE[j].payload.secret = APP_SECRET
        /\ grader[j].posts > 0
              => /\ grader[j].last_post.body.secret = JOB_STORE[j].payload.secret
                 /\ grader[j].last_post.body.email = JOB_STORE[j].payload.email

\* A poller has read the finished job, whose two POSTs carried the secret.
C20_Witness ==
    \E j \in Created :
        /\ observed[j] # NoneRec
        /\ observed[j].payload.secret = "REDACTED"
        /\ grader[j].posts = 2
        /\ grader[j].last_post.body.secret = APP_SECRET

\* C21: a job that left the loop because the submit url was empty or absent
\* made no POST in that iteration (none for the page that has no submit url),
\* did not count an attempt for it and did not start the clock there: on the
\* first page the clock is unset and no POST was made at all; on a follow-up
\* page the clock still shows the job's first POST.  The diagnostic is the
\* submission_response and the job is done with success true.
C21_NoTargetStopsAtOnce ==
    \A j \in JobIds :
        Exited(j, NO_SUBMIT_URL)
            => /\ task[j].current_submit_url = None
               /\ grader[j].posts_on_page = 0
               /\ task[j].submit_attempts = grader[j].posts
               /\ task[j].first_post_time = grader[j].first_post_at
               /\ grader[j].followups = 0
                     => grader[j].posts = 0 /\ task[j].first_post_time = NoneTime
               /\ JOB_STORE[j].status = "done"
               /\ JOB_STORE[j].result.success = TRUE
               /\ JOB_STORE[j].result.submission_response = Diag(NO_SUBMIT_URL)

\* The first page shows no submit link: the job is done without a POST and
\* without a start time, after the planner was asked once.
C21_Witness ==
    \E j \in Created :
        /\ Exited(j, NO_SUBMIT_URL)
        /\ grader[j].posts = 0
        /\ task[j].first_post_time = NoneTime
        /\ planner[j].initial = 1
        /\ JOB_STORE[j].status = "done"

\* What a rejection must leave alone: the page held, its parse, its
\* resources and extracted texts, the submit url and the source url.
PageOf(L) ==
    [html |-> L.html, parsed |-> L.parsed, resources |-> L.resources,
     extracted_texts |-> L.extracted_texts, submit_url |-> L.current_submit_url,
     source_url |-> L.current_source_url]

\* C22: from the rejected POST to the next one the job only asks the planner
\* to refine: the step that takes the rejection and the step that takes the
\* refined answer leave the page, parse, resources, extracted texts, submit
\* url and source url as they were; the refinement prompt holds those same
\* extracted texts; the attempt counter grows by one; and the next POST goes
\* to the same url with the same url in its body as the rejected one.
C22_Step ==
    \A j \in JobIds :
        /\ task[j].pc = "post" /\ task'[j].pc = "refine_llm"
              => /\ PageOf(task'[j]) = PageOf(task[j])
                 /\ task'[j].submit_attempts = task[j].submit_attempts
                 /\ planner'[j].refine = planner[j].refine + 1
                 /\ planner'[j].prompt.resources = task[j].extracted_texts
                 /\ planner'[j].prompt.question = task[j].parsed.question_text
                 /\ grader'[j].posts = grader[j].posts
        /\ task[j].pc = "refine_llm"
              => /\ PageOf(task'[j]) = PageOf(task[j])
                 /\ task'[j].pc \in {"refine_llm", "post", "returned"}
                 /\ task'[j].pc = "post"
                       => /\ task'[j].submit_attempts = task[j].submit_attempts + 1
                          /\ grader'[j].last_post.to = grader[j].last_post.to
                          /\ grader'[j].last_post.body.url = grader[j].last_post.body.url
                          /\ grader'[j].last_post.body.email = grader[j].last_post.body.email
                          /\ grader'[j].last_post.body.secret = grader[j].last_post.body.secret

C22_RejectionKeepsPage == [][C22_Step]_vars

\* On the follow-up page p2 an answer was rejected and the refined answer is
\* now posted, again for p2.
C22_Witness ==
    \E j \in JobIds :
        /\ task[j].pc = "post"
        /\ grader[j].last_reply.kind = "object"
        /\ grader[j].last_reply.correct = "false"
        /\ grader[j].followups = 1
        /\ grader[j].posts_on_page = 2
        /\ grader[j].last_post.body.url = "p2"
        /\ grader[j].last_post.to = "p2/submit"

\* The last reply of the grader is a JSON object whose "correct" is absent
\* or is neither True nor False (None, 1, "true", ...).
Undecided(j) ==
    /\ grader[j].last_reply.kind = "object"
    /\ grader[j].last_reply.correct = "other"

\* C23: after a reply object whose correctness flag is neither True nor False
\* the job has returned: that POST was its last, the planner was not called
\* for it (one refinement per rejection and one follow-up call per chained
\* page, no more), and the reply is the saved submission_response of a done
\* job.
C23_UndecidedReplyStops ==
    \A j \in JobIds :
        Undecided(j)
            => /\ Returned(j)
               /\ task[j].error = None
               /\ grader[j].posts = grader[j].last_reply.id
               /\ task[j].submit_attempts = grader[j].last_reply.id
               /\ planner[j].initial = 1
               /\ planner[j].refine = grader[j].rejections
               /\ planner[j].followup = grader[j].followups
               /\ task[j].submission_response = grader[j].last_reply
               /\ JOB_STORE[j].status = "done"
               /\ JOB_STORE[j].result.submission_response = grader[j].last_reply

\* The third POST of a job, after a rejection and a chained page, got a reply
\* without a usable flag, and the job is done.
C23_Witness ==
    \E j \in Created :
        /\ Undecided(j)
        /\ grader[j].rejections = 1
        /\ grader[j].followups = 1
        /\ grader[j].posts = 3
        /\ JOB_STORE[j].status = "done"

\* C24: a job whose saved submission_response is the diagnostic "no
\* submit_url provided; no submission attempted" has made no POST at all,
\* also when the page without a submit url is a follow-up page.
C24_NoTargetMeansNoPost ==
    \A j \in Created :
        /\ JOB_STORE[j].status = "done"
        /\ JOB_STORE[j].result.submission_response = Diag(NO_SUBMIT_URL)
        => grader[j].posts = 0

\* C25: every POST the grader receives is of one page: the url it is sent to
\* is the submit url that page shows, resolved against the page's url; the
\* url in its body is the page's url; and its answer was planned or refined
\* from that page's question.  While the POST is awaited, that page is the one
\* the job holds, with its parse, and the planner's last prompt was made of
\* its question and extracted texts.
C25_PostIsOfOnePage ==
    \A j \in JobIds :
        /\ grader[j].posts > 0
              => LET post == grader[j].last_post IN
                 /\ post.to = urljoin(post.body.url, "/submit")
                 /\ post.body.answer.src = post.body.url
        /\ task[j].pc = "post"
              => LET post == grader[j].last_post IN
                 /\ post.body = task[j].body
                 /\ post.body.url = task[j].current_source_url
                 /\ post.body.answer = task[j].current_answer
                 /\ task[j].html.page = post.body.url
                 /\ task[j].parsed = parse_quiz_page(task[j].html, post.body.url)
                 /\ post.to = task[j].parsed.submit_url
                 /\ task[j].resources
                        = fetch_resources(task[j].parsed, post.body.url, DOMAIN task[j].resources)
                 /\ DOMAIN task[j].extracted_texts = DOMAIN task[j].resources
                 /\ planner[j].prompt.question = post.body.url
                 /\ planner[j].prompt.resources = task[j].extracted_texts

\* The fourth POST of a job: after a rejection on p1 it chained to p2, was
\* rejected there and now posts the refined answer for p2 to p2's submit url.
C25_Witness ==
    \E j \in JobIds :
        /\ task[j].pc = "post"
        /\ task[j].url = "p1"
        /\ grader[j].posts = 4
        /\ grader[j].rejections = 2
        /\ grader[j].followups = 1
        /\ grader[j].posts_on_page = 2
        /\ grader[j].last_post.body.url = "p2"
        /\ grader[j].last_post.body.answer.src = "p2"

\* C26: with two jobs in flight, a step of one job's run leaves the record of
\* the other job exactly as it was; the payload of a record never changes;
\* and the status and result of a finished job are the ones its own run
\* produced from its own page, answer and reply.
C26_Step ==
    /\ \A j, k \in JobIds :
          j # k /\ task'[j] # task[j] /\ k \in DOMAIN JOB_STORE
              => k \in DOMAIN JOB_STORE' /\ JOB_STORE'[k] = JOB_STORE[k]
    /\ \A j \in DOMAIN JOB_STORE :
          j \in DOMAIN JOB_STORE' /\ JOB_STORE'[j].payload = JOB_STORE[j].payload

C26_OwnRecordOnly ==
    /\ [][C26_Step]_vars
    /\ [](\A j \in Created :
            /\ JOB_STORE[j].status = "done"
                  => /\ Returned(j) /\ task[j].error = None
                     /\ JOB_STORE[j].result
                            = success_result(task[j], JOB_STORE[j].result.finished_at)
                     /\ JOB_STORE[j].result.html_preview = JOB_STORE[j].payload.url
            /\ JOB_STORE[j].status = "failed"
                  => /\ Returned(j)
                     /\ JOB_STORE[j].result
                            = failure_result(task[j], JOB_STORE[j].result.finished_at)
            /\ JOB_STORE[j].status \in {"queued", "running"} => ~Returned(j))

\* Both jobs have finished, one done for p1 and one failed for p2.
C26_Witness ==
    \E j, k \in Created :
        /\ JOB_STORE[j].status = "done"
        /\ JOB_STORE[j].payload.url = "p1"
        /\ grader[j].posts = 1
        /\ JOB_STORE[k].status = "failed"
        /\ JOB_STORE[k].payload.url = "p2"

====
